---- MODULE Spec2Model ----
(***************************************************************************)
(* straw: a terminal screen buffer (straw::screen<chartype>) with a front  *)
(* grid, a back grid, a cursor, and two synchronisation routines (redraw,  *)
(* flush) that write ANSI escape sequences to std::cout.                   *)
(*                                                                         *)
(* A std::vector is a sequence; C++ index i is element i+1.  The terminal  *)
(* stream is the sequence of events the most recent operation wrote.       *)
(* An access outside a vector is undefined behaviour: the write is lost    *)
(* outside the vector or the process dies, a read yields an arbitrary      *)
(* cell or the process dies.                                               *)
(***************************************************************************)
EXTENDS Integers, Sequences, FiniteSets, TLC

\* ------------------------------------------------------------- bounds
MaxWidth == 2
MaxHeight == 2
MaxOps == 3
MaxStr == 2
MaxPaintOps == 4

\* ------------------------------------------------------------- values
\* color{R,G,B}
color(R, G, B) == <<R, G, B>>
Black == color(0, 0, 0)
White == color(255, 255, 255)
Colors == {Black, White}

\* glyphs of chartype; NL is '\n'
NL == "\n"
Glyphs == {"a", "b"}
Chars == Glyphs \cup {NL}

\* constructor arguments <<X, Y, C, B, F>>: the first is what the 4-parameter
\* constructor passes on (fill ' ', black, white), the second a 7-parameter call
CtorArgs == {<<0, 0, " ", Black, White>>, <<2, 1, ".", White, Black>>}

\* attribs(Bg, Fg, B, U); attribs(Bg, Fg) leaves bold and underline
\* uninitialised, so its caller supplies whatever the memory holds
attribs(Bg, Fg, B, U) == [bg |-> Bg, fg |-> Fg, bold |-> B, underline |-> U]

\* cell{Chr, Attr}
cell(Chr, Attr) == [chr |-> Chr, attr |-> Attr]

\* what a read outside a vector may find
Garbage == {cell("?", attribs(Black, Black, FALSE, FALSE)),
            cell(" ", attribs(Black, White, FALSE, FALSE))}

\* ------------------------------------------------------------- terminal
\* ANSI_MOVE(x, y): ESC [ y+1 ; x+1 H
ANSI_MOVE(x, y) == [op |-> "move", row |-> y + 1, col |-> x + 1]
\* ANSI_COLOR_FG(c): ESC [ 38;2; r ; g ; b m
ANSI_COLOR_FG(c) == [op |-> "sgr", code |-> 38, c |-> c]
\* ANSI_COLOR_BG(c): the source writes the same select code, 38
ANSI_COLOR_BG(c) == [op |-> "sgr", code |-> 38, c |-> c]
\* std::cout << chr
PutChr(c) == [op |-> "chr", c |-> c]

\* ------------------------------------------------------------- state
VARIABLES m_x, m_y, m_width, m_height, m_front, m_back,
          m_cursorX, m_cursorY, m_cursorAttribs, m_fillChar,
          status,   \* "running", "aborted" (assert failed), "crashed"
          ub,       \* the last operation accessed memory outside a vector
          out,      \* terminal events written by the last operation
          lastOp,   \* name of the last operation
          lastArgs, \* its arguments
          ops,      \* operations performed so far
          ret,      \* what the last operation returned (<<>> for void)
          term      \* the colours last selected on the terminal

vars == <<m_x, m_y, m_width, m_height, m_front, m_back, m_cursorX, m_cursorY,
          m_cursorAttribs, m_fillChar, status, ub, out, lastOp, lastArgs, ops,
          ret, term>>

\* the screen object as a record; fault is "none", "assert" or "ub"
Self == [m_x |-> m_x, m_y |-> m_y, m_width |-> m_width, m_height |-> m_height,
         m_front |-> m_front, m_back |-> m_back,
         m_cursorX |-> m_cursorX, m_cursorY |-> m_cursorY,
         m_cursorAttribs |-> m_cursorAttribs, m_fillChar |-> m_fillChar,
         fault |-> "none", out |-> <<>>, ret |-> <<>>]

Fill(n, v) == [i \in 1..n |-> v]

\* assert(cond): on failure the process aborts and nothing later runs
Failed(s) == s.fault = "assert"
Abort(s) == [s EXCEPT !.fault = "assert"]
Undefined(s) == IF s.fault = "assert" THEN s ELSE [s EXCEPT !.fault = "ub"]

\* ------------------------------------------------------------- element access
\* the assertion of operator[](i)
RowAssert(s, i) == i < s.m_width * s.m_height

\* indices of the grid that lie outside vector vec
Oob(s, vec) == {i \in 0..(s.m_width * s.m_height - 1) : i >= Len(vec)}

\* read of element idx of a vector; mem is what lies outside it
VecRead(vec, mem, idx) == IF idx < Len(vec) THEN vec[idx + 1] ELSE mem[idx]

\* (*this)[y] read as a row of m_width cells
FrontRow(s, mem, y) ==
    [k \in 1..s.m_width |-> VecRead(s.m_front, mem, y * s.m_width + (k - 1))]

\* the span over m_back that flush builds for row y
BackRow(s, mem, y) ==
    [k \in 1..s.m_width |-> VecRead(s.m_back, mem, y * s.m_width + (k - 1))]

\* m_front[idx] = v
VecWrite(s, idx, v) ==
    IF idx < Len(s.m_front) THEN [s EXCEPT !.m_front[idx + 1] = v]
    ELSE Undefined(s)

\* (*this)[y][x] = v: element x of the span that starts at y * m_width
SpanWrite(s, y, x, v) ==
    LET idx == y * s.m_width + x
    IN IF idx < Len(s.m_front)
       THEN IF x < s.m_width THEN [s EXCEPT !.m_front[idx + 1] = v]
            ELSE Undefined([s EXCEPT !.m_front[idx + 1] = v])
       ELSE Undefined(s)

\* ------------------------------------------------------------- mutation
setcursorxy(s, x, y) == [s EXCEPT !.m_cursorX = x, !.m_cursorY = y]
setcursorfg(s, c) == [s EXCEPT !.m_cursorAttribs.fg = c]
setcursorbg(s, c) == [s EXCEPT !.m_cursorAttribs.bg = c]
setcursorbold(s, b) == [s EXCEPT !.m_cursorAttribs.bold = b]
setcursorunderline(s, u) == [s EXCEPT !.m_cursorAttribs.underline = u]

getcursorx(s) == [s EXCEPT !.ret = s.m_cursorY]
getcursory(s) == [s EXCEPT !.ret = s.m_cursorY]

\* operator[](i) called from outside: the span over cells i * m_width up to
\* i * m_width + m_width of m_front
index(s, i) ==
    IF ~RowAssert(s, i) THEN Abort(s)
    ELSE LET sp == [s EXCEPT !.ret = [first |-> i * s.m_width,
                                      len |-> s.m_width]]
         IN IF i * s.m_width + s.m_width > Len(s.m_front)
            THEN Undefined(sp) ELSE sp

\* clear that fills the back grid as well
clear_Both(s, c) ==
    [s EXCEPT !.m_front = Fill(Len(s.m_front), cell(c, s.m_cursorAttribs)),
              !.m_back = Fill(Len(s.m_back), cell(c, s.m_cursorAttribs))]

clear(s, c) ==
    [s EXCEPT !.m_front = Fill(Len(s.m_front), cell(c, s.m_cursorAttribs))]

scroll(s) ==
    LET w == s.m_width
        n == Len(s.m_front)
        blank == cell(s.m_fillChar, s.m_cursorAttribs)
        s1 == [s EXCEPT !.m_cursorY = s.m_height - 1]
    IN IF n < w
       THEN Undefined(s1)                 \* begin() + m_width lies past end()
       ELSE LET cut == SubSeq(s.m_front, w + 1, n)
                m == Len(cut)
            IN IF m < w                   \* end() - m_width lies before begin()
               THEN Undefined([s1 EXCEPT !.m_front = Fill(m, blank)])
               ELSE [s1 EXCEPT !.m_front = SubSeq(cut, 1, m - w) \o Fill(w, blank)]

setc(s, x, y, c) ==
    IF ~(x < s.m_width) \/ ~(y < s.m_height) THEN Abort(s)
    ELSE VecWrite(s, x + (y * s.m_width), cell(c, s.m_cursorAttribs))

putc(s, c) ==
    LET s1 == IF s.m_cursorY = s.m_height THEN scroll(s) ELSE s
        s2 == IF c = NL
              THEN [s1 EXCEPT !.m_cursorX = 0, !.m_cursorY = @ + 1]
              ELSE IF ~RowAssert(s1, s1.m_cursorY) THEN Abort(s1)
              ELSE [SpanWrite(s1, s1.m_cursorY, s1.m_cursorX,
                              cell(c, s1.m_cursorAttribs))
                      EXCEPT !.m_cursorX = @ + 1]
        s3 == IF s2.m_cursorX = s2.m_width
              THEN [s2 EXCEPT !.m_cursorY = @ + 1, !.m_cursorX = 0]
              ELSE s2
    IN IF Failed(s2) THEN s2 ELSE s3

RECURSIVE puts(_, _)
puts(s, str) ==
    IF str = <<>> \/ Failed(s) THEN s
    ELSE puts(putc(s, Head(str)), Tail(str))

\* ------------------------------------------------------------- synchronisation
\* the inner loop of redraw over the cells of one row, from cell k on
RECURSIVE redrawRow(_, _, _, _)
redrawRow(row, k, cattr, acc) ==
    IF k > Len(row) THEN [cattr |-> cattr, out |-> acc]
    ELSE LET c == row[k]
         IN IF c.attr # cattr
            THEN redrawRow(row, k + 1, c.attr,
                           acc \o <<ANSI_COLOR_FG(c.attr.fg),
                                    ANSI_COLOR_BG(c.attr.bg), PutChr(c.chr)>>)
            ELSE redrawRow(row, k + 1, cattr, acc \o <<PutChr(c.chr)>>)

\* the outer loop of redraw, from row y on
RECURSIVE redrawRows(_, _, _, _, _)
redrawRows(s, mem, y, cattr, acc) ==
    IF ~(y < s.m_height) THEN acc
    ELSE LET r == redrawRow(FrontRow(s, mem, y), 1, cattr,
                            acc \o <<ANSI_MOVE(0, y)>>)
         IN redrawRows(s, mem, y + 1, r.cattr, r.out)

\* redraw that forgets its final m_back = m_front
redraw_NoCopy(s, mem) ==
    IF ~RowAssert(s, 0) THEN Abort(s)
    ELSE LET cattr == VecRead(s.m_front, mem, 0).attr
             done == [s EXCEPT !.out = redrawRows(s, mem, 0, cattr, <<>>)]
         IN IF Oob(s, s.m_front) # {} THEN Undefined(done) ELSE done

redraw(s, mem) ==
    IF ~RowAssert(s, 0) THEN Abort(s)
    ELSE LET cattr == VecRead(s.m_front, mem, 0).attr
             done == [s EXCEPT !.out = redrawRows(s, mem, 0, cattr, <<>>),
                               !.m_back = s.m_front]
         IN IF Oob(s, s.m_front) # {} THEN Undefined(done) ELSE done

\* the inner loop of flush over the columns of row y, from column x on
RECURSIVE flushRow(_, _, _, _, _)
flushRow(frontspan, backspan, y, x, acc) ==
    IF ~(x < Len(frontspan)) THEN acc
    ELSE LET f == frontspan[x + 1]
             b == backspan[x + 1]
         IN IF f = b THEN flushRow(frontspan, backspan, y, x + 1, acc)
            ELSE flushRow(frontspan, backspan, y, x + 1,
                     acc \o <<ANSI_MOVE(x, y)>>
                         \o (IF f.attr # b.attr
                             THEN <<ANSI_COLOR_FG(f.attr.fg), ANSI_COLOR_BG(f.attr.bg)>>
                             ELSE <<>>)
                         \o <<PutChr(f.chr)>>)

\* the outer loop of flush, from row y on
RECURSIVE flushRows(_, _, _, _, _)
flushRows(s, memF, memB, y, acc) ==
    IF ~(y < s.m_height) THEN acc
    ELSE LET backspan == BackRow(s, memB, y)
             frontspan == FrontRow(s, memF, y)
         IN IF backspan = frontspan
            THEN flushRows(s, memF, memB, y + 1, acc)
            ELSE flushRows(s, memF, memB, y + 1,
                           flushRow(frontspan, backspan, y, 0, acc))

\* flush that reconciles the wrong way round, m_front = m_back
flush_BackToFront(s, memF, memB) ==
    LET done == [s EXCEPT !.out = flushRows(s, memF, memB, 0, <<>>),
                          !.m_front = s.m_back]
    IN IF s.m_height > 0 /\ ~RowAssert(s, 0) THEN Abort(s)
       ELSE IF Oob(s, s.m_front) # {} \/ Oob(s, s.m_back) # {}
            THEN Undefined(done) ELSE done

flush(s, memF, memB) ==
    LET done == [s EXCEPT !.out = flushRows(s, memF, memB, 0, <<>>)]
    IN IF s.m_height > 0 /\ ~RowAssert(s, 0) THEN Abort(s)
       ELSE IF Oob(s, s.m_front) # {} \/ Oob(s, s.m_back) # {}
            THEN Undefined(done) ELSE done

\* ------------------------------------------------------------- construction
\* screen(X, Y, W, H, C, B, F) before its body runs; fb, fu are the
\* uninitialised bold and underline of the cell{C, B, F} that fills the grid,
\* cb, cu those of m_cursorAttribs(B, F)
screen(X, Y, W, H, C, B, F, fb, fu, cb, cu) ==
    LET front == Fill(W * H, cell(C, attribs(B, F, fb, fu)))
    IN [m_x |-> X, m_y |-> Y, m_width |-> W, m_height |-> H,
        m_front |-> front, m_back |-> front,
        m_cursorX |-> 0, m_cursorY |-> 0,
        m_cursorAttribs |-> attribs(B, F, cb, cu), m_fillChar |-> C,
        fault |-> "none", out |-> <<>>, ret |-> <<>>]

\* the colours the terminal holds after the events from k on; a colour
\* emission is ANSI_COLOR_FG's event followed by ANSI_COLOR_BG's, and half
\* says that event k-1 was the first of the two
RECURSIVE TermAfter(_, _, _, _)
TermAfter(active, events, k, half) ==
    IF k > Len(events) THEN active
    ELSE IF events[k].op # "sgr" THEN TermAfter(active, events, k + 1, FALSE)
    ELSE IF half
         THEN TermAfter([active EXCEPT !.bg = events[k].c], events, k + 1, FALSE)
         ELSE TermAfter([active EXCEPT !.fg = events[k].c], events, k + 1, TRUE)

\* the state of the program is the record r, reached by operation name(args)
Becomes(r, name, args, st) ==
    /\ m_x' = r.m_x /\ m_y' = r.m_y
    /\ m_width' = r.m_width /\ m_height' = r.m_height
    /\ m_front' = r.m_front /\ m_back' = r.m_back
    /\ m_cursorX' = r.m_cursorX /\ m_cursorY' = r.m_cursorY
    /\ m_cursorAttribs' = r.m_cursorAttribs /\ m_fillChar' = r.m_fillChar
    /\ out' = r.out
    /\ ret' = r.ret
    /\ term' = TermAfter(term, r.out, 1, FALSE)
    /\ ub' = (r.fault = "ub")
    /\ status' = st
    /\ lastOp' = name /\ lastArgs' = args

\* how an operation that ended in record r leaves the process
Outcomes(r) == IF r.fault = "assert" THEN {"aborted"}
               ELSE IF r.fault = "ub" THEN {"running", "crashed"}
               ELSE {"running"}

Init ==
    \E a \in CtorArgs, W \in 1..MaxWidth, H \in 1..MaxHeight,
       fb \in BOOLEAN, fu \in BOOLEAN, cb \in BOOLEAN, cu \in BOOLEAN :
        LET r == redraw(screen(a[1], a[2], W, H, a[3], a[4], a[5],
                               fb, fu, cb, cu), <<>>)
        IN /\ m_x = r.m_x /\ m_y = r.m_y
           /\ m_width = r.m_width /\ m_height = r.m_height
           /\ m_front = r.m_front /\ m_back = r.m_back
           /\ m_cursorX = r.m_cursorX /\ m_cursorY = r.m_cursorY
           /\ m_cursorAttribs = r.m_cursorAttribs /\ m_fillChar = r.m_fillChar
           /\ out = r.out
           /\ ret = <<>>
           /\ term = TermAfter([fg |-> a[5], bg |-> a[4]], r.out, 1, FALSE)
           /\ ub = FALSE
           /\ status = "running"
           /\ lastOp = "screen" /\ lastArgs = <<>>
           /\ ops = 0

\* ------------------------------------------------------------- operations
Ready == status = "running" /\ ops < MaxOps

Call(r, name, args) ==
    /\ Ready
    /\ ops' = ops + 1
    /\ \E st \in Outcomes(r) : Becomes(r, name, args, st)

\* strings of at most MaxStr glyphs
Strings == UNION {[1..n -> Chars] : n \in 1..MaxStr}

Do_setcursorxy ==
    \E x \in 0..m_width, y \in 0..m_height :
        Call(setcursorxy(Self, x, y), "setcursorxy", <<x, y>>)
Do_setcursorfg == \E c \in Colors : Call(setcursorfg(Self, c), "setcursorfg", <<c>>)
Do_setcursorbg == \E c \in Colors : Call(setcursorbg(Self, c), "setcursorbg", <<c>>)
Do_setcursorbold ==
    \E b \in BOOLEAN : Call(setcursorbold(Self, b), "setcursorbold", <<b>>)
Do_setcursorunderline ==
    \E u \in BOOLEAN : Call(setcursorunderline(Self, u), "setcursorunderline", <<u>>)
Do_clear == \E c \in Glyphs : Call(clear(Self, c), "clear", <<c>>)
Do_scroll == Call(scroll(Self), "scroll", <<>>)
Do_setc ==
    \E x \in 0..m_width, y \in 0..m_height, c \in Glyphs :
        Call(setc(Self, x, y, c), "setc", <<x, y, c>>)
Do_putc == \E c \in Chars : Call(putc(Self, c), "putc", <<c>>)
Do_puts == \E str \in Strings : Call(puts(Self, str), "puts", <<str>>)
Do_redraw ==
    \E mem \in [Oob(Self, m_front) -> Garbage] :
        Call(redraw(Self, mem), "redraw", <<>>)
Do_flush ==
    \E memF \in [Oob(Self, m_front) -> Garbage],
       memB \in [Oob(Self, m_back) -> Garbage] :
        Call(flush(Self, memF, memB), "flush", <<>>)

Do_getcursorx == Call(getcursorx(Self), "getcursorx", <<>>)
Do_getcursory == Call(getcursory(Self), "getcursory", <<>>)
Do_index ==
    \E i \in 0..(m_width * m_height) : Call(index(Self, i), "index", <<i>>)

Next ==
    \/ Do_setcursorxy
    \/ Do_setcursorfg
    \/ Do_setcursorbg
    \/ Do_setcursorbold
    \/ Do_setcursorunderline
    \/ Do_clear
    \/ Do_scroll
    \/ Do_setc
    \/ Do_putc
    \/ Do_puts
    \/ Do_redraw
    \/ Do_flush
    \/ Do_getcursorx
    \/ Do_getcursory
    \/ Do_index

Spec == Init /\ [][Next]_vars

\* a program that, once the screen is constructed, only writes characters
NextWrite ==
    \/ Do_putc
    \/ Do_puts

SpecWrite == Init /\ [][NextWrite]_vars

\* a program that recolours the cursor, plots cells inside the grid and
\* flushes, for up to MaxPaintOps calls
CallWithin(n, r, name, args) ==
    /\ status = "running" /\ ops < n
    /\ ops' = ops + 1
    /\ \E st \in Outcomes(r) : Becomes(r, name, args, st)

Paint_setcursorfg ==
    \E c \in Colors :
        CallWithin(MaxPaintOps, setcursorfg(Self, c), "setcursorfg", <<c>>)
Paint_setc ==
    \E x \in 0..(m_width - 1), y \in 0..(m_height - 1), c \in Glyphs :
        CallWithin(MaxPaintOps, setc(Self, x, y, c), "setc", <<x, y, c>>)
Paint_flush ==
    \E memF \in [Oob(Self, m_front) -> Garbage],
       memB \in [Oob(Self, m_back) -> Garbage] :
        CallWithin(MaxPaintOps, flush(Self, memF, memB), "flush", <<>>)

NextPaint ==
    \/ Paint_setcursorfg
    \/ Paint_setc
    \/ Paint_flush

SpecPaint == Init /\ [][NextPaint]_vars

\* ------------------------------------------------------------- claims
\* both grids hold width * height cells
WholeGrids ==
    /\ Len(m_front) = m_width * m_height
    /\ Len(m_back) = m_width * m_height

\* the operation just performed returned and touched no memory outside a vector
Completed == status = "running" /\ ~ub

\* C1: after flush completes, the back grid equals the front grid cell for
\* cell, whatever the two grids held when flush was called.
C1_FlushSyncsBack ==
    (lastOp = "flush" /\ Completed) => m_back = m_front

\* C2: a flush that directly follows a flush, with no mutation in between,
\* emits no cursor move, no colour sequence and no glyph.
C2_SecondFlushSilent ==
    [][(lastOp = "flush" /\ Completed /\ lastOp' = "flush" /\ Completed')
        => out' = <<>>]_vars

\* C3: scroll leaves new row i equal to old row i+1 for 0 <= i < height-1,
\* makes row height-1 all Cell{fill glyph, cursor attributes}, sets cursor.y
\* to height-1, and the grid still has height rows.
C3_ScrollLaw ==
    [][(lastOp' = "scroll" /\ Completed' /\ Len(m_front) = m_width * m_height)
        => /\ Len(m_front') = m_width * m_height
           /\ \A i \in 0..(m_width * (m_height - 1) - 1) :
                 m_front'[i + 1] = m_front[i + m_width + 1]
           /\ \A x \in 0..(m_width - 1) :
                 m_front'[(m_height - 1) * m_width + x + 1]
                     = cell(m_fillChar, m_cursorAttribs)
           /\ m_cursorY' = m_height - 1]_vars

\* C4: in every reachable state the front grid and the back grid each
\* contain exactly width * height cells.
C4_GridSize == WholeGrids

\* the writes C5 expects, for the cells from index i on: for every cell whose
\* front and back differ, a move to it, a colour emission if its attributes
\* differ, and its front glyph
RECURSIVE ChangedCellWrites(_, _, _, _, _)
ChangedCellWrites(front, back, w, n, i) ==
    IF ~(i < n) THEN <<>>
    ELSE LET rest == ChangedCellWrites(front, back, w, n, i + 1)
             inD == /\ i < Len(front) /\ i < Len(back)
                    /\ front[i + 1] # back[i + 1]
         IN IF ~inD THEN rest
            ELSE <<ANSI_MOVE(i % w, i \div w)>>
                 \o (IF front[i + 1].attr # back[i + 1].attr
                     THEN <<ANSI_COLOR_FG(front[i + 1].attr.fg),
                            ANSI_COLOR_BG(front[i + 1].attr.bg)>>
                     ELSE <<>>)
                 \o <<PutChr(front[i + 1].chr)>>
                 \o rest

\* C5: flush emits, for each cell on which front and back differ, in
\* row-major order, one cursor move, a colour emission only if the attributes
\* differ, and the front glyph; it emits nothing for any other cell.
C5_FlushWritesChangedCells ==
    [][(lastOp' = "flush" /\ status' = "running" /\ ~ub)
        => out' = ChangedCellWrites(m_front, m_back, m_width,
                                    m_width * m_height, 0)]_vars

\* C5 restricted to grids of width * height cells (no scroll has run)
C5_OnWholeGrids ==
    [][(lastOp' = "flush" /\ status' = "running" /\ WholeGrids)
        => out' = ChangedCellWrites(m_front, m_back, m_width,
                                    m_width * m_height, 0)]_vars

\* C6: in every reachable state 0 <= cursor.x < width and
\* 0 <= cursor.y <= height.
C6_CursorInvariant ==
    status = "running"
        => /\ 0 <= m_cursorX /\ m_cursorX < m_width
           /\ 0 <= m_cursorY /\ m_cursorY <= m_height

\* C6 for the runs that never call setcursorxy: tracked by the cursor being
\* moved only by putc, puts and scroll
C6_StepKeepsCursor ==
    [][(lastOp' # "setcursorxy" /\ status' = "running"
          /\ m_cursorX < m_width /\ m_cursorY <= m_height)
        => (m_cursorX' < m_width /\ m_cursorY' <= m_height)]_vars

\* C7: after a full redraw completes, and immediately after construction,
\* the back grid equals the front grid cell for cell.
C7_RedrawSyncsBack ==
    (lastOp \in {"redraw", "screen"} /\ status = "running") => m_back = m_front

\* C7 witness: a redraw has completed on a grid that holds a written glyph,
\* which the back grid of construction did not hold
C7_Witness ==
    /\ lastOp = "redraw" /\ status = "running"
    /\ \E i \in 1..Len(m_front) : m_front[i].chr \in Glyphs
    /\ m_back = m_front

\* what C8 says one write-char step does, from cursor (m_cursorX, m_cursorY)
PutcLaw ==
    LET c == lastArgs'[1]
        idx == m_cursorX + m_cursorY * m_width
    IN IF c = NL
       THEN /\ m_front' = m_front
            /\ m_cursorX' = 0 /\ m_cursorY' = m_cursorY + 1
       ELSE /\ Len(m_front') = Len(m_front)
            /\ idx < Len(m_front')
            /\ m_front'[idx + 1] = cell(c, m_cursorAttribs)
            /\ \A i \in 1..Len(m_front) : i # idx + 1 => m_front'[i] = m_front[i]
            /\ IF m_cursorX + 1 < m_width
               THEN m_cursorX' = m_cursorX + 1 /\ m_cursorY' = m_cursorY
               ELSE m_cursorX' = 0 /\ m_cursorY' = m_cursorY + 1

\* C8: with the cursor at (x,y), x < width, y < height, write-char(c) of a
\* non-newline c sets front[x + y*width] to Cell{c, cursor attributes},
\* changes no other front cell and moves the cursor to (x+1,y), or to (0,y+1)
\* at the end of the row; write-char(newline) changes no front cell and moves
\* the cursor to (0,y+1).
C8_PutcStep ==
    [][(lastOp' = "putc" /\ status' = "running" /\ ~ub
          /\ m_cursorX < m_width /\ m_cursorY < m_height)
        => PutcLaw]_vars

\* C8 restricted to grids of width * height cells (no scroll has run)
C8_OnWholeGrids ==
    [][(lastOp' = "putc" /\ status' = "running" /\ WholeGrids
          /\ m_cursorX < m_width /\ m_cursorY < m_height)
        => PutcLaw]_vars

\* C8, its example: "ab\ncd" written to a fresh 3x2 buffer of spaces gives
\* rows a,b,space and c,d,space with the cursor at (2,1)
C8_Example ==
    \A fb \in BOOLEAN, cb \in BOOLEAN :
        LET r == puts(screen(0, 0, 3, 2, " ", Black, White, fb, fb, cb, cb),
                      <<"a", "b", NL, "c", "d">>)
        IN /\ [i \in 1..6 |-> r.m_front[i].chr] = <<"a", "b", " ", "c", "d", " ">>
           /\ r.m_cursorX = 2 /\ r.m_cursorY = 1
           /\ r.fault = "none"

\* what C9 says write-string of width glyphs does from cursor (0, m_cursorY)
WrapLaw ==
    LET str == lastArgs'[1]
    IN /\ \A k \in 0..(m_width - 1) :
            /\ m_cursorY * m_width + k < Len(m_front')
            /\ m_front'[m_cursorY * m_width + k + 1]
                   = cell(str[k + 1], m_cursorAttribs)
       /\ m_cursorX' = 0 /\ m_cursorY' = m_cursorY + 1

WrapCase ==
    /\ lastOp' = "puts" /\ status' = "running"
    /\ Len(lastArgs'[1]) = m_width
    /\ \A k \in 1..Len(lastArgs'[1]) : lastArgs'[1][k] # NL
    /\ m_cursorX = 0 /\ m_cursorY < m_height

\* C9: for every row y < height, write-string of exactly width non-newline
\* glyphs from cursor (0,y) writes them into columns 0..width-1 of row y and
\* leaves the cursor at (0,y+1).
C9_LineWrap == [][(WrapCase /\ ~ub) => WrapLaw]_vars

\* C9 restricted to grids of width * height cells (no scroll has run)
C9_OnWholeGrids == [][(WrapCase /\ WholeGrids) => WrapLaw]_vars

\* what C10 says set-cell(x, y, g) does
SetcLaw ==
    LET x == lastArgs'[1]
        y == lastArgs'[2]
        g == lastArgs'[3]
        idx == x + y * m_width
    IN /\ Len(m_front') = Len(m_front)
       /\ idx < Len(m_front')
       /\ m_front'[idx + 1] = cell(g, m_cursorAttribs)
       /\ FrontRow(Self', <<>>, y)[x + 1] = m_front'[idx + 1]
       /\ \A i \in 1..Len(m_front) : i # idx + 1 => m_front'[i] = m_front[i]
       /\ m_back' = m_back
       /\ m_cursorX' = m_cursorX /\ m_cursorY' = m_cursorY

SetcCase ==
    /\ lastOp' = "setc" /\ status' = "running"
    /\ lastArgs'[1] < m_width /\ lastArgs'[2] < m_height

\* C10: for x < width, y < height, after set-cell(x,y,g) the cell read
\* through row(y)[x] is the cell at index x + y*width and equals
\* Cell{g, cursor attributes at the call}; every other front cell, the back
\* grid and the cursor are unchanged.
C10_SetcLaw == [][(SetcCase /\ ~ub) => SetcLaw]_vars

\* C10 restricted to grids of width * height cells (no scroll has run)
C10_OnWholeGrids == [][(SetcCase /\ WholeGrids) => SetcLaw]_vars

\* C11: indexing row i with i >= height never returns a slice: it trips the
\* precondition assertion, also when i < width * height.
C11_RowIndexFailsFast ==
    (lastOp = "index" /\ lastArgs[1] >= m_height /\ status # "crashed")
        => status = "aborted"

IsMove(e) == e.op = "move"

\* the cursor moves C12 expects of flush, for the cells from index i on: one
\* per cell whose front and back differ, addressed from the origin (ox, oy)
RECURSIVE ChangedCellMoves(_, _, _, _, _, _, _)
ChangedCellMoves(front, back, w, n, i, ox, oy) ==
    IF ~(i < n) THEN <<>>
    ELSE (IF front[i + 1] # back[i + 1]
          THEN <<ANSI_MOVE(ox + (i % w), oy + (i \div w))>> ELSE <<>>)
         \o ChangedCellMoves(front, back, w, n, i + 1, ox, oy)

\* C12: every cursor move that redraw or flush emits for grid cell (x,y)
\* addresses the terminal position (origin.x + x, origin.y + y): redraw moves
\* to column 0 of each row, flush to each changed cell.
C12_OriginTranslation ==
    [][/\ (lastOp' = "redraw" /\ Completed')
            => SelectSeq(out', IsMove)
                 = [y \in 1..m_height |-> ANSI_MOVE(m_x + 0, m_y + (y - 1))]
       /\ (lastOp' = "flush" /\ Completed')
            => SelectSeq(out', IsMove)
                 = ChangedCellMoves(m_front, m_back, m_width,
                                    m_width * m_height, 0, m_x, m_y)]_vars

\* C12 with the origin left out of the expected address: what the code emits
C12_MovesIgnoreOrigin ==
    [][/\ (lastOp' = "redraw" /\ Completed')
            => SelectSeq(out', IsMove)
                 = [y \in 1..m_height |-> ANSI_MOVE(0, y - 1)]
       /\ (lastOp' = "flush" /\ Completed')
            => SelectSeq(out', IsMove)
                 = ChangedCellMoves(m_front, m_back, m_width,
                                    m_width * m_height, 0, 0, 0)]_vars

\* C13: the cursor-x query returns the current cursor column and the
\* cursor-y query returns the current cursor row.
C13_CursorQuery ==
    /\ (lastOp = "getcursorx" /\ status = "running") => ret = m_cursorX
    /\ (lastOp = "getcursory" /\ status = "running") => ret = m_cursorY

RedrawTwice ==
    /\ lastOp = "redraw" /\ status = "running"
    /\ lastOp' = "redraw" /\ status' = "running"

RedrawSame == out' = out /\ m_back = m_front /\ m_back' = m_front'

\* C14: a redraw that directly follows a redraw, with no mutation in
\* between, emits the same cursor moves, colour sequences and glyphs, and
\* back == front holds after each of the two (the grids of height 1 are left
\* to C3, where scroll itself is undefined).
C14_RedrawIdempotent == [][(RedrawTwice /\ m_height >= 2) => RedrawSame]_vars

\* C14 restricted to grids of width * height cells (no scroll has run)
C14_OnWholeGrids == [][(RedrawTwice /\ WholeGrids) => RedrawSame]_vars

\* C15: a colour emission is a foreground-select sequence (38;2;r;g;b)
\* followed by a background-select sequence (48;2;r;g;b), so the two are
\* different output events also for the same colour.
C15_BackgroundSelect ==
    \A k \in 1..(Len(out) - 1) :
        (out[k].op = "sgr" /\ out[k + 1].op = "sgr")
            => /\ out[k].code = 38
               /\ out[k + 1].code = 48
               /\ ANSI_COLOR_FG(out[k].c) # ANSI_COLOR_BG(out[k].c)

\* C16: from a freshly constructed buffer, under write-char / write-string
\* calls only, every cell write of write-char targets an index inside the
\* front grid, also after an automatic scroll (checked under SpecWrite; the
\* grids of height 1 are left to C3, where scroll itself is undefined).
C16_WritesInBounds ==
    (lastOp \in {"putc", "puts"} /\ m_height >= 2) => ~ub

\* every glyph among the events from k on is drawn while the terminal holds
\* the colours of the front cell it is drawn for; pos is the index of the
\* cell the last cursor move addressed
RECURSIVE GlyphsInOwnColours(_, _, _, _, _, _, _)
GlyphsInOwnColours(events, k, active, half, pos, front, w) ==
    IF k > Len(events) THEN TRUE
    ELSE LET e == events[k]
         IN IF e.op = "move"
            THEN GlyphsInOwnColours(events, k + 1, active, FALSE,
                                    (e.row - 1) * w + (e.col - 1), front, w)
            ELSE IF e.op = "sgr"
            THEN GlyphsInOwnColours(events, k + 1,
                     IF half THEN [active EXCEPT !.bg = e.c]
                             ELSE [active EXCEPT !.fg = e.c],
                     ~half, pos, front, w)
            ELSE /\ front[pos + 1].attr.fg = active.fg
                 /\ front[pos + 1].attr.bg = active.bg
                 /\ GlyphsInOwnColours(events, k + 1, active, FALSE,
                                       pos + 1, front, w)

\* C17: whenever flush emits the glyph of a changed cell, the colours the
\* terminal holds at that moment (those of the most recent colour emission,
\* initially the construction colours) are that cell's front foreground and
\* background.
C17_FlushOwnColours ==
    [][(lastOp' = "flush" /\ Completed')
        => GlyphsInOwnColours(out', 1, term, FALSE, 0, m_front, m_width)]_vars

Mutators == {"setc", "clear", "scroll", "putc", "puts", "setcursorxy",
             "setcursorfg", "setcursorbg", "setcursorbold",
             "setcursorunderline"}

C19_DefaultStyleFlags ==
    lastOp = "screen"
        => /\ \A i \in 1..Len(m_front) :
                 ~m_front[i].attr.bold /\ ~m_front[i].attr.underline
           /\ \A i \in 1..Len(m_back) :
                 ~m_back[i].attr.bold /\ ~m_back[i].attr.underline
           /\ ~m_cursorAttribs.bold /\ ~m_cursorAttribs.underline

\* C20: redraw and flush modify no front cell, and leave the cursor position,
\* the cursor attributes, the fill glyph, the origin and the dimensions alone.
C20_SyncKeepsLogicalState ==
    [][lastOp' \in {"redraw", "flush"}
        => /\ m_front' = m_front
           /\ m_cursorX' = m_cursorX /\ m_cursorY' = m_cursorY
           /\ m_cursorAttribs' = m_cursorAttribs
           /\ m_fillChar' = m_fillChar
           /\ m_x' = m_x /\ m_y' = m_y
           /\ m_width' = m_width /\ m_height' = m_height]_vars

\* C20 witness: a flush has drawn changed cells of a front grid that still
\* differs from the back grid, with the cursor away from (0,0)
C20_Witness ==
    /\ lastOp = "flush" /\ Completed
    /\ out # <<>>
    /\ m_front # m_back
    /\ m_cursorX + m_cursorY > 0

====
